---- MODULE Spec2Model ----
(***************************************************************************)
(* Model of the BeatyPets RAG notebook (src/DSPy-LanceDB-demo.ipynb):      *)
(* the Vectorstore (chunking, table creation, ingestion, FTS index), the   *)
(* RAG / EvaluatorRAG modules and RAG_Assitant.process_question.           *)
(*                                                                         *)
(* Texts are sequences of one-character strings.  The LanceDB store is a   *)
(* set of table names with, per table, its rows and its full-text index.   *)
(* Every process is one caller that constructs a Vectorstore (directly, or *)
(* through RAG_Assitant) and then, when it holds an assistant, asks        *)
(* questions.  The store calls of _persist_on_db are separate steps, since *)
(* nothing in the code makes them atomic.                                  *)
(***************************************************************************)
EXTENDS Integers, Sequences, FiniteSets, TLC

\* ------------------------------------------------------------------ bounds
MaxLen == 5
NumProcs == 2
MaxCalls == 2
MaxMetricLen == 3
MaxTopK == 3

\* ------------------------------------------------------- program constants
DefaultChunkSize == 50
DefaultTopK == 3
RerankWeight == 7

\* ----------------------------------------------------------------- strings
WS == {" ", "\n"}
Letters == {"a", "b"}
Alphabet == Letters \cup WS

IsWS(c) == c \in WS

RECURSIVE SeqsUpTo(_, _)
SeqsUpTo(S, n) ==
  IF n = 0 THEN {<<>>}
  ELSE LET shorter == SeqsUpTo(S, n - 1)
       IN shorter \cup {Append(s, c) : s \in {t \in shorter : Len(t) = n - 1}, c \in S}

AllTexts == SeqsUpTo(Alphabet, MaxLen)
AllSizes == -1 .. 3

\* str.split() with no argument: the maximal runs of non-whitespace
\* characters, in order; never an empty word.
RECURSIVE SplitFrom(_, _, _, _)
SplitFrom(s, i, cur, acc) ==
  IF i > Len(s) THEN (IF cur = <<>> THEN acc ELSE Append(acc, cur))
  ELSE IF IsWS(s[i])
       THEN SplitFrom(s, i + 1, <<>>, IF cur = <<>> THEN acc ELSE Append(acc, cur))
       ELSE SplitFrom(s, i + 1, Append(cur, s[i]), acc)

\* a split on spaces only, as s.split(' ') without its empty words
RECURSIVE SplitSpacesFrom(_, _, _, _)
SplitSpacesFrom(s, i, cur, acc) ==
  IF i > Len(s) THEN (IF cur = <<>> THEN acc ELSE Append(acc, cur))
  ELSE IF s[i] = " "
       THEN SplitSpacesFrom(s, i + 1, <<>>, IF cur = <<>> THEN acc ELSE Append(acc, cur))
       ELSE SplitSpacesFrom(s, i + 1, Append(cur, s[i]), acc)

StrSplitSpaces(s) == SplitSpacesFrom(s, 1, <<>>, <<>>)

StrSplit(s) == SplitFrom(s, 1, <<>>, <<>>)

\* sep.join(parts)
RECURSIVE StrJoin(_, _)
StrJoin(sep, parts) ==
  IF parts = <<>> THEN <<>>
  ELSE IF Len(parts) = 1 THEN parts[1]
  ELSE parts[1] \o sep \o StrJoin(sep, Tail(parts))

\* words[i:j] of Python, 0-based, for 0 <= i <= j
Slice(words, i, j) ==
  LET hi == IF j > Len(words) THEN Len(words) ELSE j
  IN IF i >= hi THEN <<>> ELSE SubSeq(words, i + 1, hi)

\* range(0, n, step) for step # 0, as the sequence of its values
RECURSIVE RangeFrom(_, _, _)
RangeFrom(i, n, step) ==
  IF step > 0
  THEN (IF i >= n THEN <<>> ELSE <<i>> \o RangeFrom(i + step, n, step))
  ELSE (IF i <= n THEN <<>> ELSE <<i>> \o RangeFrom(i + step, n, step))

\* re.sub(r'\s+', ' ', text): every maximal whitespace run becomes one space
RECURSIVE ReSubFrom(_, _, _)
ReSubFrom(s, i, acc) ==
  IF i > Len(s) THEN acc
  ELSE IF IsWS(s[i])
       THEN (IF i > 1 /\ IsWS(s[i - 1]) THEN ReSubFrom(s, i + 1, acc)
             ELSE ReSubFrom(s, i + 1, Append(acc, " ")))
       ELSE ReSubFrom(s, i + 1, Append(acc, s[i]))

ReSubWS(s) == ReSubFrom(s, 1, <<>>)

\* ----------------------------------------------------------------- chunker
\* a chunker whose slices run one word into the next chunk
SplitTextIntoChunksOverlap(text, chunk_size) ==
  LET words == StrSplit(text)
  IN IF chunk_size = 0
     THEN [ok |-> FALSE, val |-> <<>>]
     ELSE LET starts == RangeFrom(0, Len(words), chunk_size)
          IN [ok |-> TRUE,
              val |-> [k \in 1 .. Len(starts) |->
                         StrJoin(<<" ">>, Slice(words, starts[k], starts[k] + chunk_size + 1))]]

\* Vectorstore.split_text_into_chunks: the result is either the list of
\* chunks or the ValueError that range() raises for a zero step.
SplitTextIntoChunks(text, chunk_size) ==
  LET words == StrSplit(text)
  IN IF chunk_size = 0
     THEN [ok |-> FALSE, val |-> <<>>]
     ELSE LET starts == RangeFrom(0, Len(words), chunk_size)
          IN [ok |-> TRUE,
              val |-> [k \in 1 .. Len(starts) |->
                         StrJoin(<<" ">>, Slice(words, starts[k], starts[k] + chunk_size))]]

\* ---------------------------------------------------------------- the state
Procs == 1 .. NumProcs
DefaultTableName == "context"
TableNames == {DefaultTableName}

\* texts and chunk sizes that callers of the full system pass
Corpus == {<<"a", " ", "b">>, <<"b", "\n", " ", "a", "a">>}
ChunkSizes == {-1, 0, 1}

VARIABLES
  tables,      \* db.table_names(): the tables that exist in the store
  rows,        \* rows[n]: the rows of table n, in insertion order
  fts,         \* fts[n]: the full-text index of table n
  origin,      \* origin[n]: the text and chunk size of the construction that created table n
  pc,          \* pc[p]: where caller p stands
  kind,        \* kind[p]: "vs" (a bare Vectorstore) or "assistant" (RAG_Assitant)
  db,          \* db[p]: self.db is connected
  given,       \* given[p]: which of context_information and db_path the constructor was handed
  ctx,         \* ctx[p]: self.context_information
  csize,       \* csize[p]: self.chunk_size
  sawTable,    \* sawTable[p]: outcome of the test of line 97
  didSplit,    \* didSplit[p]: split_text_into_chunks was called by this construction
  didEmbed,    \* didEmbed[p]: tbl.add (embedding + insert) was called by this construction
  chunks,      \* chunks[p]: what split_text_into_chunks returned (or that it raised)
  err,         \* err[p]: the exception the last operation of p ended with, "" if none
  asked,       \* asked[p]: the queries of the process_question calls of p, oldest first
  trace,       \* trace[p]: the stages invoked by the current (or last) call
  outcome,     \* outcome[p]: "none", "running", "ok" or "error" for that call
  relevant,    \* relevant[p]: relevant_contexts of RAG.forward
  prediction,  \* prediction[p]: what RAG.forward returned
  evaluation,  \* evaluation[p]: what the evaluate_answer call returned (line 255)
  result,      \* result[p]: what process_question returned
  lmlog,       \* lmlog[p]: the language-model calls of the current call: what went in, what came out
  found        \* found[p]: the last direct search_table call of p and what it returned

storeVars == <<tables, rows, fts, origin>>
ctorVars == <<kind, given, db, ctx, csize, sawTable, didSplit, didEmbed, chunks>>
queryVars == <<asked, trace, outcome, relevant, prediction, evaluation, result, lmlog, found>>
vars == <<tables, rows, fts, origin, pc, kind, given, db, ctx, csize, sawTable, didSplit,
          didEmbed, chunks, err, asked, trace, outcome, relevant, prediction, evaluation,
          result, lmlog, found>>

\* how a caller may pass context_information or db_path: a value, None, or
\* not at all
ArgForms == {"value", "None", "omitted"}

\* every way of passing the two arguments, and the two ways the larger
\* specifications use: both given, and a db_path of None
AllArgs == [ci : ArgForms, dbp : ArgForms]
BothGiven == [ci |-> "value", dbp |-> "value"]
SomeArgs == {BothGiven, [ci |-> "value", dbp |-> "None"]}

NoIndex == [built |-> FALSE, over |-> <<>>, by |-> 0]
NoChunks == [ok |-> TRUE, val |-> <<>>]
NoOrigin == [some |-> FALSE, text |-> <<>>, size |-> 0]
NoSearch == [some |-> FALSE, query |-> <<>>, top_k |-> 0, n |-> 0, cands |-> {},
             hits |-> <<>>, context |-> <<>>]
NoPrediction == [some |-> FALSE, query |-> <<>>, context_chunks |-> <<>>,
                 answer |-> "", answer_rationale |-> ""]
IntMetric(n) == [kind |-> "int", num |-> n, str |-> <<>>]
StrMetric(s) == [kind |-> "str", num |-> 0, str |-> s]
NoEvaluation == [some |-> FALSE, accuracy_metric |-> IntMetric(0), rationale_metric |-> ""]
NoResult == [some |-> FALSE, query |-> <<>>, context_chunks |-> <<>>,
             answer |-> "", answer_rationale |-> "",
             accuracy_metric |-> IntMetric(0), rationale_metric |-> ""]

Init ==
  /\ tables = {}
  /\ rows = [n \in TableNames |-> <<>>]
  /\ fts = [n \in TableNames |-> NoIndex]
  /\ origin = [n \in TableNames |-> NoOrigin]
  /\ pc = [p \in Procs |-> "idle"]
  /\ kind = [p \in Procs |-> "vs"]
  /\ given = [p \in Procs |-> BothGiven]
  /\ db = [p \in Procs |-> FALSE]
  /\ ctx = [p \in Procs |-> <<>>]
  /\ csize = [p \in Procs |-> DefaultChunkSize]
  /\ sawTable = [p \in Procs |-> FALSE]
  /\ didSplit = [p \in Procs |-> FALSE]
  /\ didEmbed = [p \in Procs |-> FALSE]
  /\ chunks = [p \in Procs |-> NoChunks]
  /\ err = [p \in Procs |-> ""]
  /\ asked = [p \in Procs |-> <<>>]
  /\ trace = [p \in Procs |-> <<>>]
  /\ outcome = [p \in Procs |-> "none"]
  /\ relevant = [p \in Procs |-> <<>>]
  /\ prediction = [p \in Procs |-> NoPrediction]
  /\ evaluation = [p \in Procs |-> NoEvaluation]
  /\ result = [p \in Procs |-> NoResult]
  /\ lmlog = [p \in Procs |-> <<>>]
  /\ found = [p \in Procs |-> NoSearch]

\* ------------------------------------------------------------- Vectorstore
\* the embedding model, an opaque deterministic function of the text
Embed(text) == <<Len(text), Cardinality({i \in 1 .. Len(text) : text[i] = "a"})>>

\* Schema: a row holds the text and the vector computed from it
Schema(text) == [text |-> text, vector |-> Embed(text)]

\* the exception of a missing argument: Vectorstore defaults both to None
\* and raises ValueError (lines 79-80), and so does RAG for a None (lines
\* 178-179); RAG and RAG_Assitant declare no default, so leaving one out is
\* a TypeError of the call itself
ArgError(k, ci, dbp) ==
  IF k = "assistant" /\ "omitted" \in {ci, dbp} THEN "TypeError" ELSE "ValueError"

\* a constructor that connects and creates the table before it looks at its
\* arguments
VS_initConnectFirst(p, kinds, args, texts, sizes) ==
  /\ pc[p] = "idle"
  /\ \E k \in kinds, a \in args, t \in texts, c \in sizes :
       /\ kind' = [kind EXCEPT ![p] = k]
       /\ given' = [given EXCEPT ![p] = a]
       /\ db' = [db EXCEPT ![p] = TRUE]
       /\ IF a.ci # "value" \/ a.dbp # "value"
          THEN /\ pc' = [pc EXCEPT ![p] = "failed"]
               /\ err' = [err EXCEPT ![p] = ArgError(k, a.ci, a.dbp)]
               /\ tables' = tables \cup {DefaultTableName}
               /\ UNCHANGED <<rows, fts, origin, ctx, csize>>
          ELSE /\ pc' = [pc EXCEPT ![p] = "check"]
               /\ ctx' = [ctx EXCEPT ![p] = t]
               /\ csize' = [csize EXCEPT ![p] = IF k = "assistant" THEN DefaultChunkSize ELSE c]
               /\ UNCHANGED <<storeVars, err>>
  /\ UNCHANGED <<sawTable, didSplit, didEmbed, chunks, queryVars>>

\* Vectorstore.__init__ (and RAG.__init__, which passes no chunk_size):
\* rejects a missing context_information or db_path, else stores the
\* arguments, connects and goes on to _persist_on_db.
VS_init(p, kinds, args, texts, sizes) ==
  /\ pc[p] = "idle"
  /\ \E k \in kinds, a \in args, t \in texts, c \in sizes :
       /\ kind' = [kind EXCEPT ![p] = k]
       /\ given' = [given EXCEPT ![p] = a]
       /\ IF a.ci # "value" \/ a.dbp # "value"
          THEN /\ pc' = [pc EXCEPT ![p] = "failed"]
               /\ err' = [err EXCEPT ![p] = ArgError(k, a.ci, a.dbp)]
               /\ UNCHANGED <<db, ctx, csize>>
          ELSE /\ pc' = [pc EXCEPT ![p] = "check"]
               /\ db' = [db EXCEPT ![p] = TRUE]
               /\ ctx' = [ctx EXCEPT ![p] = t]
               /\ csize' = [csize EXCEPT ![p] = IF k = "assistant" THEN DefaultChunkSize ELSE c]
               /\ UNCHANGED err
  /\ UNCHANGED <<storeVars, sawTable, didSplit, didEmbed, chunks, queryVars>>

\* a test that never finds the table
TableMissingAlways(names, name) == TRUE

\* line 97: self.tablename not in self.db.table_names()
TableMissing(names, name) == name \notin names

P_check(p) ==
  /\ pc[p] = "check"
  /\ IF TableMissing(tables, DefaultTableName)
     THEN /\ pc' = [pc EXCEPT ![p] = "create"]
          /\ sawTable' = [sawTable EXCEPT ![p] = FALSE]
     ELSE /\ pc' = [pc EXCEPT ![p] = "open"]
          /\ sawTable' = [sawTable EXCEPT ![p] = TRUE]
  /\ UNCHANGED <<storeVars, kind, given, db, ctx, csize, didSplit, didEmbed, chunks, err,
               queryVars>>

\* line 98: db.create_table(name, schema=Schema, mode="overwrite"):
\* an empty table replaces whatever was stored under the name
P_create(p) ==
  /\ pc[p] = "create"
  /\ tables' = tables \cup {DefaultTableName}
  /\ rows' = [rows EXCEPT ![DefaultTableName] = <<>>]
  /\ fts' = [fts EXCEPT ![DefaultTableName] = NoIndex]
  /\ origin' = [origin EXCEPT ![DefaultTableName] =
                  [some |-> TRUE, text |-> ctx[p], size |-> csize[p]]]
  /\ pc' = [pc EXCEPT ![p] = "ingest"]
  /\ UNCHANGED <<ctorVars, err, queryVars>>

\* line 99: the rows to add, one per chunk
Contexts(chs) == [k \in 1 .. Len(chs) |-> Schema(ReSubWS(chs[k]))]

\* tbl.add(contexts): the rows are appended to the table
TableAdd(old, new) == old \o new

\* lines 99-100: chunk the text, then embed and add the rows; the chunker
\* may raise, and so may the embedding or the store while adding
P_ingest(p) ==
  /\ pc[p] = "ingest"
  /\ LET r == SplitTextIntoChunks(ctx[p], csize[p])
     IN /\ chunks' = [chunks EXCEPT ![p] = r]
        /\ didSplit' = [didSplit EXCEPT ![p] = TRUE]
        /\ IF ~r.ok
           THEN /\ pc' = [pc EXCEPT ![p] = "failed"]
                /\ err' = [err EXCEPT ![p] = "ValueError"]
                /\ UNCHANGED <<rows, didEmbed>>
           ELSE /\ didEmbed' = [didEmbed EXCEPT ![p] = TRUE]
                /\ \/ /\ rows' = [rows EXCEPT ![DefaultTableName] = TableAdd(@, Contexts(r.val))]
                      /\ pc' = [pc EXCEPT ![p] = "fts"]
                      /\ UNCHANGED err
                   \/ /\ pc' = [pc EXCEPT ![p] = "failed"]
                      /\ err' = [err EXCEPT ![p] = "AddError"]
                      /\ UNCHANGED rows
  /\ UNCHANGED <<tables, fts, origin, kind, given, db, ctx, csize, sawTable, queryVars>>

\* an else branch that adds the chunks once more
P_openAndAdd(p) ==
  /\ pc[p] = "open"
  /\ rows' = [rows EXCEPT ![DefaultTableName] =
                TableAdd(@, Contexts(SplitTextIntoChunks(ctx[p], csize[p]).val))]
  /\ pc' = [pc EXCEPT ![p] = "fts"]
  /\ UNCHANGED <<tables, fts, origin, ctorVars, err, queryVars>>

\* line 102: db.open_table(name)
P_open(p) ==
  /\ pc[p] = "open"
  /\ pc' = [pc EXCEPT ![p] = "fts"]
  /\ UNCHANGED <<storeVars, ctorVars, err, queryVars>>

\* tbl.create_fts_index("text", replace=True): a new index, built by the
\* caller over the rows the table holds now, replaces the index, if any
CreateFtsIndex(old, rs, p) ==
  [built |-> TRUE, over |-> [k \in 1 .. Len(rs) |-> rs[k].text], by |-> p]

\* line 104, reached on both branches
P_fts(p) ==
  /\ pc[p] = "fts"
  /\ fts' = [fts EXCEPT ![DefaultTableName] = CreateFtsIndex(@, rows[DefaultTableName], p)]
  /\ pc' = [pc EXCEPT ![p] = "ready"]
  /\ UNCHANGED <<tables, rows, origin, ctorVars, err, queryVars>>

\* ------------------------------------------- the chunker on every short text
NextChunk ==
  \/ VS_init(1, {"vs"}, SomeArgs, AllTexts, AllSizes)
  \/ P_check(1)
  \/ P_create(1)
  \/ P_ingest(1)
  \/ P_fts(1)

SpecChunk == Init /\ [][NextChunk]_vars

\* --------------------------------------------------------- chunking claims
\* the number of words of a text: the positions where a word starts
WordCount(s) ==
  Cardinality({i \in 1 .. Len(s) : ~IsWS(s[i]) /\ (i = 1 \/ IsWS(s[i - 1]))})

\* the whitespace-normalized text: runs collapsed, then both ends trimmed
Strip(s) ==
  LET lo == IF s # <<>> /\ IsWS(s[1]) THEN 2 ELSE 1
      hi == IF s # <<>> /\ IsWS(s[Len(s)]) THEN Len(s) - 1 ELSE Len(s)
  IN IF lo > hi THEN <<>> ELSE SubSeq(s, lo, hi)

NormalizeWS(s) == Strip(ReSubWS(s))

RECURSIVE TotalWords(_)
TotalWords(chs) == IF chs = <<>> THEN 0 ELSE WordCount(chs[1]) + TotalWords(Tail(chs))

\* C1: for a positive chunk_size C the chunker returns chunks of at most C
\* words each, exactly C words in every chunk but the last, at least one word
\* in the last, and as many words in total as the normalized text has.
C1_ChunkSizes ==
  \A p \in Procs :
    (didSplit[p] /\ csize[p] > 0) =>
      /\ chunks[p].ok
      /\ \A k \in 1 .. Len(chunks[p].val) :
           /\ WordCount(chunks[p].val[k]) <= csize[p]
           /\ WordCount(chunks[p].val[k]) >= 1
           /\ k < Len(chunks[p].val) => WordCount(chunks[p].val[k]) = csize[p]
      /\ TotalWords(chunks[p].val) = WordCount(NormalizeWS(ctx[p]))
      /\ (WordCount(ctx[p]) = 0 => chunks[p].val = <<>>)

C1_Witness ==
  \E p \in Procs :
    /\ didSplit[p] /\ csize[p] = 2
    /\ Len(chunks[p].val) = 2
    /\ WordCount(chunks[p].val[2]) = 1

\* C2: for a positive chunk_size, the chunks joined by single spaces are the
\* whitespace-normalized text, and the rows built from them hold the same texts.
C2_JoinRebuildsText ==
  \A p \in Procs :
    (didSplit[p] /\ csize[p] > 0) =>
      /\ chunks[p].ok
      /\ StrJoin(<<" ">>, chunks[p].val) = NormalizeWS(ctx[p])
      /\ \A k \in 1 .. Len(chunks[p].val) : Contexts(chunks[p].val)[k].text = chunks[p].val[k]

C2_Witness ==
  \E p \in Procs :
    /\ didSplit[p] /\ csize[p] = 1
    /\ Len(chunks[p].val) = 2
    /\ chunks[p].val[1] # chunks[p].val[2]
    /\ ctx[p] # NormalizeWS(ctx[p])

\* C3: with a chunk_size that is zero or negative the chunker raises and
\* returns no chunks, and the construction does not complete.
C3_NonPositiveSizeRaises ==
  \A p \in Procs :
    (db[p] /\ csize[p] <= 0) =>
      /\ didSplit[p] => ~chunks[p].ok
      /\ pc[p] # "ready"

\* ------------------------------------------------------------ search_table
Queries == {<<"a">>, <<"b", " ", "a", "a">>}
Separator == <<"-", " ", "c", "o", "n", "t", "e", "x", "t", " ", "b", "l", "o", "c", "k", ":", " ">>

\* The scores the store's vector search and full-text search give a row, in
\* tenths of the normalized range. Both engines are outside the program: any
\* score may come back for any row.
VScores == {0, 3, 10}
LScores == {0, 7, 10}

Min(a, b) == IF a <= b THEN a ELSE b

\* tbl.search(query_string, query_type='hybrid'): each of the two searches
\* returns up to top_k rows, merged by row id, so the reranker is handed at
\* least min(top_k, n) of the n rows, each once, with its two scores
CandidateSets(rs, top_k) ==
  {C \in SUBSET (1 .. Len(rs)) : Cardinality(C) >= Min(top_k, Len(rs))}

Candidates(rs, top_k) ==
  UNION {{{[rowid |-> i, text |-> rs[i].text, v |-> sc[i].v, l |-> sc[i].l] : i \in C} :
            sc \in [C -> [v : VScores, l : LScores]]} :
           C \in CandidateSets(rs, top_k)}

\* a reranker that weighs the lexical score with the vector score's weight
FusedScoreSwapped(c) == (10 - RerankWeight) * c.v + RerankWeight * c.l

\* LinearCombinationReranker(weight=0.7), in tenths: weight on the vector
\* score, the rest on the full-text score
FusedScore(c) == RerankWeight * c.v + (10 - RerankWeight) * c.l

\* .rerank(reranker=reranker): the candidates by descending fused score; the
\* call names no second key, so candidates of equal fused score come in any order
RECURSIVE Rankings(_)
Rankings(cs) ==
  IF cs = {} THEN {<<>>}
  ELSE UNION {{<<c>> \o r : r \in Rankings(cs \ {c})} :
                c \in {c \in cs : \A d \in cs : FusedScore(c) >= FusedScore(d)}}

\* a limit that lets one more row through
LimitInclusive(s, k) == IF Len(s) <= k + 1 THEN s ELSE SubSeq(s, 1, k + 1)

\* .limit(top_k).to_list()
Limit(s, k) == IF Len(s) <= k THEN s ELSE SubSeq(s, 1, k)

\* a join that puts the label before every text
ContextOfLabelled(hits) ==
  IF hits = <<>> THEN <<>>
  ELSE Separator \o StrJoin(Separator, [k \in 1 .. Len(hits) |-> hits[k].text])

\* line 111: "- context block: ".join([item['text'] for item in rs])
ContextOf(hits) == StrJoin(Separator, [k \in 1 .. Len(hits) |-> hits[k].text])

\* Vectorstore.search_table: every outcome the call may have on a table with
\* rows rs, one per choice of the engines' candidates and of the order of ties
SearchTable(rs, q, top_k) ==
  UNION {{[some |-> TRUE, query |-> q, top_k |-> top_k, n |-> Len(rs), cands |-> cs,
           hits |-> Limit(o, top_k), context |-> ContextOf(Limit(o, top_k))] :
            o \in Rankings(cs)} :
           cs \in Candidates(rs, top_k)}

\* -------------------------------------------------------- normalize_metric
DigitChars == <<"0", "1", "2", "3", "4", "5", "6", "7", "8", "9">>
Digits == {DigitChars[i] : i \in 1 .. 10}
DigitVal(c) == (CHOOSE i \in 1 .. 10 : DigitChars[i] = c) - 1
IsDigit(c) == c \in Digits

\* re.search(r'\d+', s): the leftmost digit run, as long as it can be;
\* found is FALSE when s holds no digit
RECURSIVE RunEnd(_, _)
RunEnd(s, j) == IF j < Len(s) /\ IsDigit(s[j + 1]) THEN RunEnd(s, j + 1) ELSE j

RECURSIVE SearchDigits(_, _)
SearchDigits(s, i) ==
  IF i > Len(s) THEN [found |-> FALSE, group |-> <<>>]
  ELSE IF IsDigit(s[i]) THEN [found |-> TRUE, group |-> SubSeq(s, i, RunEnd(s, i))]
  ELSE SearchDigits(s, i + 1)

\* int(group) for a string of decimal digits
RECURSIVE IntOf(_)
IntOf(ds) == IF ds = <<>> THEN 0 ELSE 10 * IntOf(SubSeq(ds, 1, Len(ds) - 1)) + DigitVal(ds[Len(ds)])

\* a normalization that clamps the parsed score to 10
NormalizeMetricClamped(metric) ==
  IF metric.kind = "str"
  THEN LET match == SearchDigits(metric.str, 1)
       IN IF match.found
          THEN IntMetric(IF IntOf(match.group) > 10 THEN 10 ELSE IntOf(match.group))
          ELSE metric
  ELSE metric

\* EvaluatorRAG.normalize_metric
NormalizeMetric(metric) ==
  IF metric.kind = "str"
  THEN LET match == SearchDigits(metric.str, 1)
       IN IF match.found THEN IntMetric(IntOf(match.group)) ELSE metric
  ELSE metric

\* --------------------------------------------------------- process_question
\* what the language model may return for the two calls
LMAnswers == {[answer |-> "yes", answer_rationale |-> "stated"],
              [answer |-> "cannot help", answer_rationale |-> "absent"]}
LMRationale == "why"

MetricAlphabet == {"0", "1", "7", "x"}
AllMetrics ==
  {IntMetric(n) : n \in {-1, 8, 11}} \cup {StrMetric(s) : s \in SeqsUpTo(MetricAlphabet, MaxMetricLen)}

Stages == <<"retrieve", "generate", "evaluate">>
StageError(stage) ==
  IF stage = "retrieve" THEN "RetrievalError"
  ELSE IF stage = "generate" THEN "GenerationError" ELSE "EvaluationError"

\* a handler that catches the exception and returns what it has so far
RaiseCaught(p, stage) ==
  /\ pc' = [pc EXCEPT ![p] = "ready"]
  /\ outcome' = [outcome EXCEPT ![p] = "error"]
  /\ err' = [err EXCEPT ![p] = StageError(stage)]
  /\ result' = [result EXCEPT ![p] =
                  [NoResult EXCEPT !.some = TRUE,
                                   !.context_chunks = relevant[p],
                                   !.answer = prediction[p].answer]]
  /\ UNCHANGED <<relevant, prediction, evaluation, lmlog>>

\* an exception raised by a stage leaves process_question at once: nothing
\* in RAG.forward, EvaluatorRAG.forward or process_question catches it
Raise(p, stage) ==
  /\ pc' = [pc EXCEPT ![p] = "ready"]
  /\ outcome' = [outcome EXCEPT ![p] = "error"]
  /\ err' = [err EXCEPT ![p] = StageError(stage)]
  /\ UNCHANGED <<relevant, prediction, evaluation, result, lmlog>>

\* a process_question that answers a repeated query from a cache
PQ_callCached(p) ==
  /\ pc[p] = "ready" /\ kind[p] = "assistant"
  /\ Len(asked[p]) < MaxCalls
  /\ \E q \in Queries :
       /\ asked' = [asked EXCEPT ![p] = Append(@, q)]
       /\ IF \E i \in 1 .. Len(asked[p]) : asked[p][i] = q
          THEN /\ pc' = pc
               /\ outcome' = [outcome EXCEPT ![p] = "ok"]
               /\ result' = [result EXCEPT ![p] = [NoResult EXCEPT !.some = TRUE, !.query = q]]
          ELSE /\ pc' = [pc EXCEPT ![p] = "retrieve"]
               /\ outcome' = [outcome EXCEPT ![p] = "running"]
               /\ result' = [result EXCEPT ![p] = NoResult]
  /\ trace' = [trace EXCEPT ![p] = <<>>]
  /\ err' = [err EXCEPT ![p] = ""]
  /\ relevant' = [relevant EXCEPT ![p] = <<>>]
  /\ prediction' = [prediction EXCEPT ![p] = NoPrediction]
  /\ evaluation' = [evaluation EXCEPT ![p] = NoEvaluation]
  /\ lmlog' = [lmlog EXCEPT ![p] = <<>>]
  /\ UNCHANGED <<storeVars, ctorVars, found>>

\* assistant.process_question(query) is called
PQ_call(p) ==
  /\ pc[p] = "ready" /\ kind[p] = "assistant"
  /\ Len(asked[p]) < MaxCalls
  /\ \E q \in Queries : asked' = [asked EXCEPT ![p] = Append(@, q)]
  /\ pc' = [pc EXCEPT ![p] = "retrieve"]
  /\ trace' = [trace EXCEPT ![p] = <<>>]
  /\ outcome' = [outcome EXCEPT ![p] = "running"]
  /\ err' = [err EXCEPT ![p] = ""]
  /\ relevant' = [relevant EXCEPT ![p] = <<>>]
  /\ prediction' = [prediction EXCEPT ![p] = NoPrediction]
  /\ evaluation' = [evaluation EXCEPT ![p] = NoEvaluation]
  /\ result' = [result EXCEPT ![p] = NoResult]
  /\ lmlog' = [lmlog EXCEPT ![p] = <<>>]
  /\ UNCHANGED <<storeVars, ctorVars, found>>

Query(p) == asked[p][Len(asked[p])]

\* RAG.forward, lines 188-192: search_table; the hybrid search needs the
\* table and its full-text index, and the store or the embedding may fail
PQ_retrieve(p) ==
  /\ pc[p] = "retrieve"
  /\ trace' = [trace EXCEPT ![p] = Append(@, "retrieve")]
  /\ \/ /\ DefaultTableName \in tables
        /\ fts[DefaultTableName].built
        /\ \E o \in SearchTable(rows[DefaultTableName], Query(p), DefaultTopK) :
             relevant' = [relevant EXCEPT ![p] = o.context]
        /\ pc' = [pc EXCEPT ![p] = "generate"]
        /\ UNCHANGED <<outcome, err, prediction, evaluation, result, lmlog>>
     \/ Raise(p, "retrieve")
  /\ UNCHANGED <<storeVars, ctorVars, asked, found>>

\* a RAG.forward that returns the answer without the rationale
PQ_generateNoRationale(p) ==
  /\ pc[p] = "generate"
  /\ trace' = [trace EXCEPT ![p] = Append(@, "generate")]
  /\ \/ /\ \E lm \in LMAnswers :
             /\ lmlog' = [lmlog EXCEPT ![p] =
                            Append(@, [call |-> "generate_answer",
                                       in |-> [query |-> Query(p),
                                               context_chunks |-> relevant[p],
                                               answer |-> "", answer_rationale |-> ""],
                                       out |-> lm])]
             /\ prediction' = [prediction EXCEPT ![p] =
                                 [some |-> TRUE, query |-> Query(p),
                                  context_chunks |-> relevant[p],
                                  answer |-> lm.answer,
                                  answer_rationale |-> ""]]
        /\ pc' = [pc EXCEPT ![p] = "evaluate"]
        /\ UNCHANGED <<outcome, err, relevant, evaluation, result>>
     \/ Raise(p, "generate")
  /\ UNCHANGED <<storeVars, ctorVars, asked, found>>

\* RAG.forward, lines 193-203: the generate_answer call and the Prediction
PQ_generate(p) ==
  /\ pc[p] = "generate"
  /\ trace' = [trace EXCEPT ![p] = Append(@, "generate")]
  /\ \/ /\ \E lm \in LMAnswers :
             /\ lmlog' = [lmlog EXCEPT ![p] =
                            Append(@, [call |-> "generate_answer",
                                       in |-> [query |-> Query(p),
                                               context_chunks |-> relevant[p],
                                               answer |-> "", answer_rationale |-> ""],
                                       out |-> lm])]
             /\ prediction' = [prediction EXCEPT ![p] =
                                 [some |-> TRUE, query |-> Query(p),
                                  context_chunks |-> relevant[p],
                                  answer |-> lm.answer,
                                  answer_rationale |-> lm.answer_rationale]]
        /\ pc' = [pc EXCEPT ![p] = "evaluate"]
        /\ UNCHANGED <<outcome, err, relevant, evaluation, result>>
     \/ Raise(p, "generate")
  /\ UNCHANGED <<storeVars, ctorVars, asked, found>>

\* process_question, lines 309-324, with EvaluatorRAG.forward: the
\* evaluate_answer call, normalize_metric, and the dictionary returned
PQ_evaluate(p, metrics) ==
  /\ pc[p] = "evaluate"
  /\ trace' = [trace EXCEPT ![p] = Append(@, "evaluate")]
  /\ \/ /\ lmlog' = [lmlog EXCEPT ![p] =
                       Append(@, [call |-> "evaluate_answer",
                                  in |-> [query |-> Query(p),
                                          context_chunks |-> prediction[p].context_chunks,
                                          answer |-> prediction[p].answer,
                                          answer_rationale |-> prediction[p].answer_rationale],
                                  out |-> [answer |-> "", answer_rationale |-> ""]])]
        /\ \E m \in metrics :
             /\ evaluation' = [evaluation EXCEPT ![p] =
                                 [some |-> TRUE, accuracy_metric |-> m,
                                  rationale_metric |-> LMRationale]]
             /\ result' = [result EXCEPT ![p] =
                             [some |-> TRUE, query |-> Query(p),
                              context_chunks |-> prediction[p].context_chunks,
                              answer |-> prediction[p].answer,
                              answer_rationale |-> prediction[p].answer_rationale,
                              accuracy_metric |-> NormalizeMetric(m),
                              rationale_metric |-> LMRationale]]
        /\ pc' = [pc EXCEPT ![p] = "ready"]
        /\ outcome' = [outcome EXCEPT ![p] = "ok"]
        /\ UNCHANGED <<err, relevant, prediction>>
     \/ Raise(p, "evaluate")
  /\ UNCHANGED <<storeVars, ctorVars, asked, found>>

\* a search_table that stores the query in the table it searches
ST_searchStoring(p, queries, tops) ==
  /\ pc[p] = "ready"
  /\ \E q \in queries, k \in tops :
       \/ /\ DefaultTableName \in tables
          /\ fts[DefaultTableName].built
          /\ \E o \in SearchTable(rows[DefaultTableName], q, k) :
               found' = [found EXCEPT ![p] = o]
          /\ rows' = [rows EXCEPT ![DefaultTableName] = TableAdd(@, <<Schema(q)>>)]
          /\ err' = [err EXCEPT ![p] = ""]
       \/ /\ found' = [found EXCEPT ![p] = NoSearch]
          /\ err' = [err EXCEPT ![p] = StageError("retrieve")]
          /\ UNCHANGED rows
  /\ UNCHANGED <<tables, fts, origin, pc, ctorVars, asked, trace, outcome, relevant, prediction,
                 evaluation, result, lmlog>>

\* a direct call of search_table(query_string, top_k=k) on a constructed
\* Vectorstore (the assistant's own is assistant.rag.vectorstore): nothing is
\* caught, so a failure of open_table, of the embedding or of the search
\* returns nothing
ST_search(p, queries, tops) ==
  /\ pc[p] = "ready"
  /\ \E q \in queries, k \in tops :
       \/ /\ DefaultTableName \in tables
          /\ fts[DefaultTableName].built
          /\ \E o \in SearchTable(rows[DefaultTableName], q, k) :
               found' = [found EXCEPT ![p] = o]
          /\ err' = [err EXCEPT ![p] = ""]
       \/ /\ found' = [found EXCEPT ![p] = NoSearch]
          /\ err' = [err EXCEPT ![p] = StageError("retrieve")]
  /\ UNCHANGED <<storeVars, pc, ctorVars, asked, trace, outcome, relevant, prediction,
                 evaluation, result, lmlog>>

\* the caller drops its object (a failed or a finished one) and may
\* construct another
Discard(p) ==
  /\ pc[p] \in {"failed", "ready"}
  /\ pc' = [pc EXCEPT ![p] = "idle"]
  /\ kind' = [kind EXCEPT ![p] = "vs"]
  /\ given' = [given EXCEPT ![p] = BothGiven]
  /\ db' = [db EXCEPT ![p] = FALSE]
  /\ ctx' = [ctx EXCEPT ![p] = <<>>]
  /\ csize' = [csize EXCEPT ![p] = DefaultChunkSize]
  /\ sawTable' = [sawTable EXCEPT ![p] = FALSE]
  /\ didSplit' = [didSplit EXCEPT ![p] = FALSE]
  /\ didEmbed' = [didEmbed EXCEPT ![p] = FALSE]
  /\ chunks' = [chunks EXCEPT ![p] = NoChunks]
  /\ err' = [err EXCEPT ![p] = ""]
  /\ asked' = [asked EXCEPT ![p] = <<>>]
  /\ trace' = [trace EXCEPT ![p] = <<>>]
  /\ outcome' = [outcome EXCEPT ![p] = "none"]
  /\ relevant' = [relevant EXCEPT ![p] = <<>>]
  /\ prediction' = [prediction EXCEPT ![p] = NoPrediction]
  /\ evaluation' = [evaluation EXCEPT ![p] = NoEvaluation]
  /\ result' = [result EXCEPT ![p] = NoResult]
  /\ lmlog' = [lmlog EXCEPT ![p] = <<>>]
  /\ found' = [found EXCEPT ![p] = NoSearch]
  /\ UNCHANGED storeVars

\* ------------------------------------------------------ the specifications
Kinds == {"vs", "assistant"}
RaceSizes == {0, 1}

\* Vectorstores constructed concurrently on one store, step by step
Next ==
  \E p \in Procs :
    \/ VS_init(p, {"vs"}, SomeArgs, Corpus, RaceSizes)
    \/ P_check(p)
    \/ P_create(p)
    \/ P_ingest(p)
    \/ P_open(p)
    \/ P_fts(p)
    \/ Discard(p)

Spec == Init /\ [][Next]_vars

\* constructions one after the other: a caller takes a step only while no
\* other caller is inside a constructor
OthersQuiet(p) == \A o \in Procs \ {p} : pc[o] \in {"idle", "failed", "ready"}

Seq_init(p) == OthersQuiet(p) /\ VS_init(p, Kinds, SomeArgs, Corpus, ChunkSizes)
Seq_check(p) == OthersQuiet(p) /\ P_check(p)
Seq_create(p) == OthersQuiet(p) /\ P_create(p)
Seq_ingest(p) == OthersQuiet(p) /\ P_ingest(p)
Seq_open(p) == OthersQuiet(p) /\ P_open(p)
Seq_fts(p) == OthersQuiet(p) /\ P_fts(p)
Seq_Discard(p) == OthersQuiet(p) /\ Discard(p)

NextSeq ==
  \E p \in Procs :
    \/ Seq_init(p)
    \/ Seq_check(p)
    \/ Seq_create(p)
    \/ Seq_ingest(p)
    \/ Seq_open(p)
    \/ Seq_fts(p)
    \/ Seq_Discard(p)

SpecSeq == Init /\ [][NextSeq]_vars

\* one caller that constructs assistants and asks questions, with every
\* short text the language model may return as the accuracy metric
NextAsk ==
  \/ VS_init(1, Kinds, AllArgs, Corpus, {1})
  \/ P_check(1)
  \/ P_create(1)
  \/ P_ingest(1)
  \/ P_open(1)
  \/ P_fts(1)
  \/ PQ_call(1)
  \/ PQ_retrieve(1)
  \/ PQ_generate(1)
  \/ PQ_evaluate(1, AllMetrics)
  \/ Discard(1)

SpecAsk == Init /\ [][NextAsk]_vars

\* one caller that builds tables of no, one, two and three rows and searches
\* each newly constructed Vectorstore once, with every top_k up to MaxTopK
SearchCorpus == {<<>>, <<"a">>, <<"a", " ", "b">>, <<"a", " ", "b", " ", "a">>}
TopKs == 1 .. MaxTopK

ST_first(p) == ~found[p].some /\ err[p] = "" /\ ST_search(p, Queries, TopKs)

NextSearch ==
  \/ VS_init(1, {"vs"}, SomeArgs, SearchCorpus, {1})
  \/ P_check(1)
  \/ P_create(1)
  \/ P_ingest(1)
  \/ P_open(1)
  \/ P_fts(1)
  \/ ST_first(1)
  \/ Discard(1)

SpecSearch == Init /\ [][NextSearch]_vars

\* callers that construct one after the other and then query side by side:
\* a bare Vectorstore is searched once (for the text it holds, with the
\* default top_k), an assistant is asked one question, and the steps of the
\* callers' queries interleave freely
QueryCorpus == {<<"a">>}
QueryMetrics == {IntMetric(8)}
Constructing == {"check", "create", "ingest", "open", "fts"}
NoOtherConstructs(p) == \A o \in Procs \ {p} : pc[o] \notin Constructing

Q_init(p) == NoOtherConstructs(p) /\ VS_init(p, Kinds, {BothGiven}, QueryCorpus, {1})
Q_check(p) == NoOtherConstructs(p) /\ P_check(p)
Q_create(p) == NoOtherConstructs(p) /\ P_create(p)
Q_ingest(p) == NoOtherConstructs(p) /\ P_ingest(p)
Q_open(p) == NoOtherConstructs(p) /\ P_open(p)
Q_fts(p) == NoOtherConstructs(p) /\ P_fts(p)
Q_search(p) ==
  /\ kind[p] = "vs" /\ ~found[p].some /\ err[p] = ""
  /\ ST_search(p, QueryCorpus, {DefaultTopK})
Q_call(p) == asked[p] = <<>> /\ PQ_call(p)
Q_retrieve(p) == PQ_retrieve(p)
Q_generate(p) == PQ_generate(p)
Q_evaluate(p) == PQ_evaluate(p, QueryMetrics)
Q_Discard(p) == Discard(p)

NextQuery ==
  \E p \in Procs :
    \/ Q_init(p)
    \/ Q_check(p)
    \/ Q_create(p)
    \/ Q_ingest(p)
    \/ Q_open(p)
    \/ Q_fts(p)
    \/ Q_search(p)
    \/ Q_call(p)
    \/ Q_retrieve(p)
    \/ Q_generate(p)
    \/ Q_evaluate(p)
    \/ Q_Discard(p)

SpecQuery == Init /\ [][NextQuery]_vars

\* ------------------------------------------------------- ingestion claims
TheRows == rows[DefaultTableName]
TheIndex == fts[DefaultTableName]

\* caller p found no table at line 97 and took the ingesting branch
ObservedMissing(p) ==
  \/ pc[p] \in {"create", "ingest"}
  \/ pc[p] \in {"fts", "ready"} /\ ~sawTable[p]
  \/ pc[p] = "failed" /\ db[p]

\* C4: of the concurrent constructions on a store without the table, one at
\* most finds the table missing and ingests, and once every construction has
\* ended the table holds the chunks of one corpus, each once.
C4_FirstWriterWins ==
  /\ Cardinality({p \in Procs : ObservedMissing(p)}) <= 1
  /\ (\A p \in Procs : pc[p] = "ready") =>
       \E p \in Procs : chunks[p].ok /\ TheRows = Contexts(chunks[p].val)

\* C5: once a construction has succeeded (the index is built), no later
\* sequential construction changes the row count of the table.
C5_IdempotentIngestion ==
  [][TheIndex.built => Len(rows'[DefaultTableName]) = Len(TheRows)]_vars

\* a second construction has completed on a table that holds rows
C5_Witness ==
  \E p \in Procs :
    /\ pc[p] = "ready" /\ sawTable[p] /\ ctx[p] # <<>>
    /\ Len(TheRows) = 2
    /\ TheIndex.by = p

\* caller p takes a step of the branch for an existing table
ExistingTableStep(p) ==
  /\ pc'[p] # pc[p]
  /\ pc[p] \in {"check", "open", "fts"}
  /\ sawTable'[p]

\* C6 as stated: on an existing table the construction leaves rows, vectors
\* and lexical index as they were, and neither chunks nor embeds.
C6_ExistingTableNoOp ==
  [][\A p \in Procs :
       ExistingTableStep(p) =>
         /\ tables' = tables /\ rows' = rows /\ fts' = fts
         /\ ~didSplit'[p] /\ ~didEmbed'[p]]_vars

\* C6 amended: on an existing table the construction leaves the rows and
\* their vectors as they were and neither chunks nor embeds, whatever text
\* and chunk size it was given; it replaces the lexical index by one built
\* over the rows the table holds.
C6_ExistingTableTrusted ==
  [][\A p \in Procs :
       ExistingTableStep(p) =>
         /\ tables' = tables /\ rows' = rows
         /\ ~didSplit'[p] /\ ~didEmbed'[p] /\ chunks'[p] = NoChunks
         /\ pc'[p] = "ready" =>
              fts'[DefaultTableName] = CreateFtsIndex(TheIndex, TheRows, p)
         /\ pc'[p] # "ready" => fts' = fts]_vars

\* a construction given another text and chunk size than the table was
\* built from has completed on the existing table
C6_Witness ==
  \E p \in Procs :
    /\ pc[p] = "ready" /\ sawTable[p]
    /\ TheRows # <<>>
    /\ TheRows # Contexts(SplitTextIntoChunks(ctx[p], csize[p]).val)
    /\ TheIndex.by = p

\* ----------------------------------------------------- evaluation claims
RECURSIVE Pow10(_)
Pow10(n) == IF n = 0 THEN 1 ELSE 10 * Pow10(n - 1)

\* the value of the decimal digits s[i..j], most significant first
RECURSIVE DecValue(_, _, _)
DecValue(s, i, j) == IF i > j THEN 0 ELSE DigitVal(s[i]) * Pow10(j - i) + DecValue(s, i + 1, j)

HasDigit(s) == \E i \in 1 .. Len(s) : IsDigit(s[i])

\* s[i..j] is the first maximal run of digits of s
FirstDigitRun(s, i, j) ==
  /\ i <= j
  /\ \A k \in 1 .. (i - 1) : ~IsDigit(s[k])
  /\ \A k \in i .. j : IsDigit(s[k])
  /\ j = Len(s) \/ ~IsDigit(s[j + 1])

C8_MetricInRange ==
  \A p \in Procs :
    result[p].some =>
      /\ result[p].accuracy_metric.kind = "int"
      /\ result[p].accuracy_metric.num \in 0 .. 10

\* the stages a call has invoked when it stands at pc
StagesBefore(at) ==
  IF at = "retrieve" THEN <<>>
  ELSE IF at = "generate" THEN <<"retrieve">>
  ELSE <<"retrieve", "generate">>

\* C9: a call that returned has invoked retrieval, generation and evaluation,
\* once each and in this order, and a call under way has invoked the stages
\* before its position; this holds of every call, a repeated query included.
C9_StagesOncePerCall ==
  \A p \in Procs :
    /\ outcome[p] = "ok" => (pc[p] = "ready" /\ trace[p] = Stages /\ result[p].some)
    /\ outcome[p] = "running" =>
         (pc[p] \in {"retrieve", "generate", "evaluate"} /\ trace[p] = StagesBefore(pc[p]))

\* a second call with the query of the first has returned
C9_Witness ==
  \E p \in Procs :
    /\ Len(asked[p]) = 2 /\ asked[p][1] = asked[p][2]
    /\ outcome[p] = "ok" /\ trace[p] = Stages

\* C10: a call that failed ended with the error of the stage it invoked
\* last, had invoked the stages before it once each and none after it, and
\* returned nothing; no output of a stage that did not run exists.
C10_FailureAborts ==
  \A p \in Procs :
    outcome[p] = "error" =>
      /\ pc[p] = "ready"
      /\ ~result[p].some
      /\ \E n \in 1 .. 3 :
           /\ trace[p] = SubSeq(Stages, 1, n)
           /\ err[p] = StageError(Stages[n])
           /\ prediction[p].some <=> n = 3
      /\ ~evaluation[p].some

\* the generation failed after a successful retrieval
C10_Witness ==
  \E p \in Procs :
    /\ outcome[p] = "error" /\ err[p] = "GenerationError"
    /\ trace[p] = <<"retrieve", "generate">>
    /\ relevant[p] # <<>>

\* ------------------------------------------------------- retrieval claims
HitSet(f) == {f.hits[i] : i \in 1 .. Len(f.hits)}

\* 0.7 * vector score + 0.3 * lexical score, in tenths
Fused(c) == 7 * c.v + 3 * c.l

\* the hits are candidates, as many as top_k allows, and no candidate left
\* out has a higher fused score than one returned
KeepsBest(f) ==
  /\ HitSet(f) \subseteq f.cands
  /\ Len(f.hits) = Min(f.top_k, Cardinality(f.cands))
  /\ \A c \in f.cands \ HitSet(f) : \A h \in HitSet(f) : Fused(h) >= Fused(c)

BestFirst(f) ==
  \A i, j \in 1 .. Len(f.hits) : i < j => Fused(f.hits[i]) >= Fused(f.hits[j])

\* C11 as stated: search_table keeps the top_k candidates with the highest
\* fused score 0.7 * vector + 0.3 * lexical and returns them best-first, and
\* of two hits with equal fused score the one with the higher vector score
\* comes first (with equal vector scores too the lexical scores are equal, and
\* so is the lexical rank the scores give, which then decides nothing).
C11_TiesByVectorScore ==
  \A p \in Procs :
    found[p].some =>
      /\ KeepsBest(found[p])
      /\ BestFirst(found[p])
      /\ \A i, j \in 1 .. Len(found[p].hits) :
           (i < j /\ Fused(found[p].hits[i]) = Fused(found[p].hits[j]))
             => found[p].hits[i].v >= found[p].hits[j].v

\* C11 amended: search_table keeps the top_k candidates with the highest
\* fused score 0.7 * vector + 0.3 * lexical and returns them best-first;
\* the order of hits with equal fused score is not fixed.
C11_TopKByFusedScore ==
  \A p \in Procs :
    found[p].some => KeepsBest(found[p]) /\ BestFirst(found[p])

\* three candidates, two returned in strictly descending fused score, with the
\* vector score and the lexical score disagreeing about them
C11_Witness ==
  \E p \in Procs :
    /\ found[p].some /\ found[p].top_k = 2
    /\ Cardinality(found[p].cands) = 3
    /\ Fused(found[p].hits[1]) > Fused(found[p].hits[2])
    /\ found[p].hits[1].v < found[p].hits[2].v
    /\ \E c \in found[p].cands \ HitSet(found[p]) : Fused(c) < Fused(found[p].hits[2])

RECURSIVE JoinedTexts(_)
JoinedTexts(hits) ==
  IF hits = <<>> THEN <<>>
  ELSE IF Len(hits) = 1 THEN hits[1].text
  ELSE JoinedTexts(SubSeq(hits, 1, Len(hits) - 1)) \o Separator \o hits[Len(hits)].text

\* C14: the context search_table returns is the texts of the hits in ranked
\* order with "- context block: " between consecutive texts only: one hit
\* gives its text alone, no hit gives the empty string.
C14_ContextJoinsTexts ==
  \A p \in Procs :
    found[p].some =>
      /\ found[p].context = JoinedTexts(found[p].hits)
      /\ Len(found[p].hits) = 0 => found[p].context = <<>>
      /\ Len(found[p].hits) = 1 => found[p].context = found[p].hits[1].text

\* three hits: two separators, none in front and none behind
C14_Witness ==
  \E p \in Procs :
    /\ found[p].some
    /\ Len(found[p].hits) = 3
    /\ found[p].context =
         found[p].hits[1].text \o Separator \o found[p].hits[2].text \o Separator
           \o found[p].hits[3].text

\* ---------------------------------------------------- construction claims
Absent(g) == g.ci # "value" \/ g.dbp # "value"

\* C13: a Vectorstore, RAG or RAG_Assitant constructed without a
\* context_information or without a db_path fails with an argument error
\* before the store is touched: the step that starts such a construction
\* ends it, opens no connection, creates no table and adds no row, and the
\* failed object never gets a connection.
C13_AbsentArgumentFailsEarly ==
  /\ [](\A p \in Procs : Absent(given[p]) => (pc[p] = "failed" /\ ~db[p]))
  /\ [][\A p \in Procs :
          (pc[p] = "idle" /\ pc'[p] # "idle" /\ Absent(given'[p])) =>
            /\ pc'[p] = "failed"
            /\ err'[p] \in {"ValueError", "TypeError"}
            /\ ~db'[p]
            /\ ~didSplit'[p] /\ ~didEmbed'[p]
            /\ tables' = tables /\ rows' = rows /\ fts' = fts]_vars

\* an assistant refused for its db_path of None, beside a store that is
\* still empty
C13_Witness ==
  \E p \in Procs :
    /\ pc[p] = "failed" /\ kind[p] = "assistant"
    /\ given[p].ci = "value" /\ given[p].dbp = "None"
    /\ err[p] = "ValueError"
    /\ ~db[p]
    /\ tables = {}

\* ------------------------------------------------------- data-flow claims
\* C15: within one process_question call the context given to the evaluator
\* is the value retrieval returned and the generator received, the answer
\* and the rationale given to the evaluator are those the generator's
\* language-model call returned, and the result carries the caller's query
\* and these same context, answer and rationale.
C15_DataFlowsUnchanged ==
  \A p \in Procs :
    result[p].some =>
      /\ Len(lmlog[p]) = 2
      /\ lmlog[p][1].call = "generate_answer"
      /\ lmlog[p][2].call = "evaluate_answer"
      /\ lmlog[p][1].in.context_chunks = relevant[p]
      /\ lmlog[p][2].in.context_chunks = relevant[p]
      /\ lmlog[p][2].in.answer = lmlog[p][1].out.answer
      /\ lmlog[p][2].in.answer_rationale = lmlog[p][1].out.answer_rationale
      /\ result[p].query = asked[p][Len(asked[p])]
      /\ result[p].context_chunks = relevant[p]
      /\ result[p].answer = lmlog[p][1].out.answer
      /\ result[p].answer_rationale = lmlog[p][1].out.answer_rationale

\* a second call has returned, with a context of two passages and the
\* refusing answer
C15_Witness ==
  \E p \in Procs :
    /\ result[p].some /\ outcome[p] = "ok"
    /\ Len(asked[p]) = 2
    /\ Len(relevant[p]) > Len(Separator)
    /\ result[p].answer = "cannot help" /\ result[p].answer_rationale = "absent"
    /\ result[p].context_chunks = relevant[p]

\* -------------------------------------------------- all-or-nothing claims
Quiet == \A p \in Procs : pc[p] \in {"idle", "failed", "ready"}

\* C16: ingestion is all-or-nothing: whenever no construction is under way,
\* a table that exists holds every chunk of the text it was created from,
\* also after constructions that failed while chunking or while adding, so
\* that no later construction trusts an empty or partly filled table.
C16_IngestionAllOrNothing ==
  (Quiet /\ DefaultTableName \in tables) =>
    LET r == SplitTextIntoChunks(origin[DefaultTableName].text, origin[DefaultTableName].size)
    IN /\ origin[DefaultTableName].some
       /\ r.ok
       /\ TheRows = Contexts(r.val)

\* ------------------------------------------------------ read-only claims
Querying == {"ready", "retrieve", "generate", "evaluate"}

\* a step of a query of caller p: p holds a constructed object before and
\* after, and its search or its process_question call has moved
QueryStep(p) ==
  /\ pc[p] \in Querying /\ pc'[p] \in Querying
  /\ <<pc[p], asked[p], trace[p], outcome[p], err[p], relevant[p], lmlog[p], result[p], found[p]>>
       # <<pc'[p], asked'[p], trace'[p], outcome'[p], err'[p], relevant'[p], lmlog'[p],
           result'[p], found'[p]>>

\* C17: queries are read-only on the store: no step of a process_question or
\* search_table call, successful or failed, alone or interleaved with other
\* callers' queries, changes the tables, their rows or the full-text index,
\* so the rows stay those present when construction finished.
C17_QueriesReadOnly ==
  [][(\E p \in Procs : QueryStep(p)) =>
       (tables' = tables /\ rows' = rows /\ fts' = fts)]_vars

\* a search has returned for one caller while another caller's question,
\* which failed in the evaluator, has ended, on the one row ingested
C17_Witness ==
  \E p, o \in Procs :
    /\ p # o
    /\ found[p].some /\ Len(found[p].hits) = 1
    /\ outcome[o] = "error" /\ err[o] = "EvaluationError"
    /\ Len(TheRows) = 1
    /\ TheIndex.built

====
